---- MODULE Spec2Model ----
(***************************************************************************)
(* Model of cachef (src/cachef.py): a line-delimited cache of resolved     *)
(* file paths kept in one text file.                                       *)
(*                                                                         *)
(* A string is a sequence of one-character strings, so that writing a     *)
(* line (text \o path \o newline) and reading it back (split on newline,  *)
(* strip surrounding whitespace) are modelled by what they do.            *)
(***************************************************************************)
EXTENDS Integers, Sequences, FiniteSets, TLC

\* ------------------------------------------------------------------ bounds
MaxLen == 10      \* longest cache file text an insert may produce
MaxBatch == 2     \* longest argument list of one cache_filepaths call
MaxAnyLines == 2  \* number of lines of an arbitrary pre-existing cache file

\* ------------------------------------------------------------ characters
NL == "\n"
SP == " "

IsSpace(c) == c \in {SP, NL}

\* ----------------------------------------------------------------- paths
\* The process works in the root directory.
Cwd == <<"/">>

PathA == <<"/", "a">>
PathB == <<"/", "b">>
PathASp == <<"/", "a", SP>>        \* a file name that ends with a space

\* The canonical paths of the modelled file system.
Paths == {PathA, PathB, PathASp}

\* The strings a caller passes as filepath.
Inputs == { <<".", "/", "a">>, PathA, <<"b">>, <<"a", SP>> }

\* Path(filepath).resolve(): absolute, "./" removed, joined to the cwd.
RECURSIVE Resolve(_)
Resolve(s) ==
    IF s = <<>> THEN Cwd
    ELSE IF Head(s) = "/" THEN s
    ELSE IF Len(s) >= 2 /\ s[1] = "." /\ s[2] = "/"
         THEN Resolve(SubSeq(s, 3, Len(s)))
    ELSE Cwd \o s

\* Path(s).exists() against the file system fsys, the set of the canonical
\* paths that exist (the cwd always exists).
PathExists(s, fsys) == Resolve(s) = Cwd \/ Resolve(s) \in fsys

\* --------------------------------------------------------------- strings
\* str.strip(): surrounding whitespace removed.
RECURSIVE LStrip(_)
LStrip(s) ==
    IF s # <<>> /\ IsSpace(Head(s)) THEN LStrip(Tail(s)) ELSE s

RECURSIVE RStrip(_)
RStrip(s) ==
    IF s # <<>> /\ IsSpace(s[Len(s)]) THEN RStrip(SubSeq(s, 1, Len(s) - 1)) ELSE s

Strip(s) == LStrip(RStrip(s))

\* Index of the first newline of s, 0 when s has none.
RECURSIVE FirstNL(_, _)
FirstNL(s, i) ==
    IF i > Len(s) THEN 0
    ELSE IF s[i] = NL THEN i
    ELSE FirstNL(s, i + 1)

\* Iterating a text file: the lines, each with its terminating newline; a
\* last line without newline is yielded as it is; an empty file has no line.
RECURSIVE FileLines(_)
FileLines(text) ==
    IF text = <<>> THEN <<>>
    ELSE LET k == FirstNL(text, 1)
         IN IF k = 0 THEN <<text>>
            ELSE <<SubSeq(text, 1, k)>> \o FileLines(SubSeq(text, k + 1, Len(text)))

\* "\n".join(xs)
RECURSIVE JoinNL(_)
JoinNL(xs) ==
    IF xs = <<>> THEN <<>>
    ELSE IF Len(xs) = 1 THEN xs[1]
    ELSE xs[1] \o <<NL>> \o JoinNL(Tail(xs))

\* Every line of ls followed by one newline.
RECURSIVE Terminated(_)
Terminated(ls) ==
    IF ls = <<>> THEN <<>> ELSE Head(ls) \o <<NL>> \o Terminated(Tail(ls))

\* ------------------------------------------------- functions of cachef.py
\* _cache_contents: the stripped lines of an existing cache file.
_cache_contents(text) ==
    LET ls == FileLines(text)
    IN [i \in 1..Len(ls) |-> Strip(ls[i])]

InTuple(x, tup) == \E i \in 1..Len(tup) : tup[i] = x

_already_cached(realpath, text) == InTuple(realpath, _cache_contents(text))

\* Variant of _cache_realpath that forgets the second write.
_cache_realpath_no_newline(realpath, text) == text \o realpath

\* _cache_realpath: write(str(realpath)); write("\n") to a file opened "a".
_cache_realpath(realpath, text) == text \o realpath \o <<NL>>

\* Variant of _not_cached_realpaths that also remembers what it has yielded.
RECURSIVE FreshRealpaths(_, _)
FreshRealpaths(realpaths, seen) ==
    IF realpaths = <<>> THEN <<>>
    ELSE IF InTuple(Head(realpaths), seen) THEN FreshRealpaths(Tail(realpaths), seen)
    ELSE <<Head(realpaths)>>
         \o FreshRealpaths(Tail(realpaths), Append(seen, Head(realpaths)))

_not_cached_realpaths_dedup(filepaths, text) ==
    FreshRealpaths([i \in 1..Len(filepaths) |-> Resolve(filepaths[i])],
                   _cache_contents(text))

\* _not_cached_realpaths: the resolved inputs that are not in the contents
\* read once, before the first of them is yielded.
_not_cached_realpaths(filepaths, text) ==
    LET cache_contents == _cache_contents(text)
        realpaths == [i \in 1..Len(filepaths) |-> Resolve(filepaths[i])]
    IN SelectSeq(realpaths, LAMBDA r : ~InTuple(r, cache_contents))

\* A cache file is [exists, parent, text]: whether the file and its parent
\* directory exist, and the text of the file (<<>> while it is absent).
\* Every call below maps the file before it to [out, file]: the outcome
\* (a return or the raised exception) and the file after it.

\* cache_file.open("r") of an absent file raises the builtin error.
OpenRead(f) == IF f.exists THEN "ok" ELSE "FileNotFoundError"

\* Variant of _setup_cache_file that opens "w" without the exists() test.
_setup_cache_file_truncating(f) ==
    [out |-> "ok", file |-> [exists |-> TRUE, parent |-> TRUE, text |-> <<>>]]

\* _setup_cache_file: mkdir(parents=True) if the parent is absent, then an
\* empty file if the file is absent.
_setup_cache_file(f) ==
    [out |-> "ok",
     file |-> [exists |-> TRUE, parent |-> TRUE,
               text |-> IF f.exists THEN f.text ELSE <<>>]]

\* Variant of cache_filepath that opens the file "w" instead of "a".
cache_filepath_overwrite(filepath, f) ==
    LET real == Resolve(filepath)
    IN IF OpenRead(f) # "ok" THEN [out |-> OpenRead(f), file |-> f]
       ELSE IF _already_cached(real, f.text) THEN [out |-> "skipped", file |-> f]
       ELSE [out |-> "appended",
             file |-> [f EXCEPT !.text = _cache_realpath(real, <<>>)]]

\* cache_filepath
cache_filepath(filepath, f) ==
    LET real == Resolve(filepath)
    IN IF OpenRead(f) # "ok" THEN [out |-> OpenRead(f), file |-> f]
       ELSE IF _already_cached(real, f.text) THEN [out |-> "skipped", file |-> f]
       ELSE [out |-> "appended",
             file |-> [f EXCEPT !.text = _cache_realpath(real, f.text)]]

\* The loop of cache_filepaths: one append per yielded realpath.
RECURSIVE AppendAll(_, _)
AppendAll(realpaths, text) ==
    IF realpaths = <<>> THEN text
    ELSE AppendAll(Tail(realpaths), _cache_realpath(Head(realpaths), text))

\* cache_filepaths
cache_filepaths(filepaths, f) ==
    LET g == _setup_cache_file(f).file
    IN [out |-> "ok",
        file |-> [g EXCEPT !.text =
                     AppendAll(_not_cached_realpaths(filepaths, g.text), g.text)]]

\* Variant of __existing_paths that yields the line as read, not stripped.
ExistingPaths_unstripped(text, fsys) ==
    SelectSeq(FileLines(text), LAMBDA l : PathExists(Strip(l), fsys))

\* clean_cache_file.__existing_paths: the stripped lines whose path exists.
ExistingPaths(text, fsys) ==
    SelectSeq(_cache_contents(text), LAMBDA l : PathExists(l, fsys))

\* Variant of clean_cache_file without the exists() test: open("w") creates
\* the file.
clean_cache_file_unguarded(f, fsys) ==
    [out |-> "ok",
     file |-> [exists |-> TRUE, parent |-> TRUE,
               text |-> JoinNL(ExistingPaths(f.text, fsys)) \o <<NL>>]]

\* clean_cache_file
clean_cache_file(f, fsys) ==
    IF ~f.exists THEN [out |-> "CacheFileNotFound", file |-> f]
    ELSE [out |-> "ok",
          file |-> [f EXCEPT !.text = JoinNL(ExistingPaths(f.text, fsys)) \o <<NL>>]]

\* ------------------------------------------------------------------ state
\* The paths on the file system belong to the environment, which may create
\* and delete them between any two calls: clean_cache_file, the one call
\* that looks at them, takes the file system of its moment as an input.
VARIABLES
    cache_file,     \* the cache file: [exists, parent, text]
    lastOp,         \* the last call: name, argument, outcome, returned value,
                    \* the cache file before it, the file system it saw, and
                    \* whether it repeats the insert of the call before it
    procs           \* the calls running concurrently, each with its position
                    \* and its local variables; empty when calls are atomic

vars == <<cache_file, lastOp, procs>>

Absent(parent) == [exists |-> FALSE, parent |-> parent, text |-> <<>>]
EmptyFile == [exists |-> TRUE, parent |-> TRUE, text |-> <<>>]

Op(name, arg, out, ret) ==
    [op |-> name, arg |-> arg, out |-> out, ret |-> ret, pre |-> cache_file,
     fs |-> {}, repeat |-> FALSE]

\* The last call was a successful insert of one path that resolves to realpath.
JustInserted(realpath) ==
    \/ /\ lastOp.op = "cache_filepath"
       /\ lastOp.out \in {"appended", "skipped"}
       /\ Resolve(lastOp.arg) = realpath
    \/ /\ lastOp.op = "cache_filepaths"
       /\ Len(lastOp.arg) = 1
       /\ Resolve(lastOp.arg[1]) = realpath

BatchArgs == UNION { [1..n -> Inputs] : n \in 0..MaxBatch }

\* The cache file is absent (with or without its directory) or empty.
Init ==
    /\ cache_file \in {Absent(FALSE), Absent(TRUE), EmptyFile}
    /\ lastOp = [op |-> "init", arg |-> <<>>, out |-> "ok", ret |-> <<>>,
                 pre |-> cache_file, fs |-> {}, repeat |-> FALSE]
    /\ procs = <<>>

\* The model stops a call that would grow the file beyond MaxLen characters.
Fits(f) == Len(f.text) <= MaxLen \/ Len(f.text) <= Len(cache_file.text)

SetupCacheFile ==
    LET r == _setup_cache_file(cache_file)
    IN /\ cache_file' = r.file
       /\ lastOp' = Op("_setup_cache_file", <<>>, r.out, <<>>)
       /\ UNCHANGED procs

CacheFilepath ==
    \E filepath \in Inputs :
        LET r == cache_filepath(filepath, cache_file)
        IN /\ Fits(r.file)
           /\ cache_file' = r.file
           /\ lastOp' = [Op("cache_filepath", filepath, r.out, <<>>)
                           EXCEPT !.repeat = r.out # "FileNotFoundError"
                                             /\ JustInserted(Resolve(filepath))]
           /\ UNCHANGED procs

CacheFilepaths ==
    \E filepaths \in BatchArgs :
        LET r == cache_filepaths(filepaths, cache_file)
        IN /\ Fits(r.file)
           /\ cache_file' = r.file
           /\ lastOp' = [Op("cache_filepaths", filepaths, r.out, <<>>)
                           EXCEPT !.repeat = Len(filepaths) = 1
                                             /\ JustInserted(Resolve(filepaths[1]))]
           /\ UNCHANGED procs

CleanCacheFile ==
    \E fsys \in SUBSET Paths :
        LET r == clean_cache_file(cache_file, fsys)
        IN /\ cache_file' = r.file
           /\ lastOp' = [Op("clean_cache_file", <<>>, r.out, <<>>) EXCEPT !.fs = fsys]
           /\ UNCHANGED procs

\* A caller reads the contents: _cache_contents(cache_file).
CacheContents ==
    /\ lastOp' = IF OpenRead(cache_file) = "ok"
                 THEN Op("_cache_contents", <<>>, "ok", _cache_contents(cache_file.text))
                 ELSE Op("_cache_contents", <<>>, OpenRead(cache_file), <<>>)
    /\ UNCHANGED <<cache_file, procs>>

\* A caller asks for membership: _already_cached(realpath, cache_file).
AlreadyCached ==
    \E realpath \in Paths :
        /\ lastOp' = IF OpenRead(cache_file) = "ok"
                     THEN Op("_already_cached", realpath, "ok",
                             <<_already_cached(realpath, cache_file.text)>>)
                     ELSE Op("_already_cached", realpath, OpenRead(cache_file), <<>>)
        /\ UNCHANGED <<cache_file, procs>>

Next ==
    \/ SetupCacheFile
    \/ CacheFilepath
    \/ CacheFilepaths
    \/ CleanCacheFile
    \/ CacheContents
    \/ AlreadyCached

Spec == Init /\ [][Next]_vars

\* ------------------------------------------ any pre-existing cache file
\* The lines an arbitrary cache file is made of: paths, a path with
\* trailing and one with leading whitespace, and a blank line.
AnyLines == {PathA, PathB, PathASp, <<SP>> \o PathB, <<>>}

\* Up to MaxAnyLines terminated lines, then possibly a last line without
\* its newline.
AnyTexts ==
    { Terminated(ls) \o last :
        ls \in UNION { [1..n -> AnyLines] : n \in 0..MaxAnyLines },
        last \in AnyLines }

InitAny ==
    /\ cache_file \in {Absent(FALSE), Absent(TRUE)}
                      \cup { [exists |-> TRUE, parent |-> TRUE, text |-> t] : t \in AnyTexts }
    /\ lastOp = [op |-> "init", arg |-> <<>>, out |-> "ok", ret |-> <<>>,
                 pre |-> cache_file, fs |-> {}, repeat |-> FALSE]
    /\ procs = <<>>

\* The calls that take one file as it is found.
NextAny ==
    \/ SetupCacheFile
    \/ CleanCacheFile
    \/ CacheFilepath
    \/ CacheContents

SpecAny == InitAny /\ [][NextAny]_vars

\* ------------------------------------------------- the command (__main__)
\* os.getenv(name): whether the variable is set, and its value.
Unset == [set |-> FALSE, value |-> <<>>]
EnvVar(v) == [set |-> TRUE, value |-> v]

\* The environments of a process: XDG_CACHE_HOME unset, empty or a
\* directory, and HOME a directory.
Envs ==
    { [xdg |-> x, home |-> h] :
        x \in {Unset, EnvVar(<<>>), EnvVar(<<"/", "x">>)},
        h \in {<<"/", "h">>, <<"/", "u">>} }

DirName == <<"c", "a", "c", "h", "e", "f">>
FileName == DirName \o <<".", "t", "x", "t">>

\* Path(a) / b
PathJoin(a, b) ==
    IF a = <<>> THEN b
    ELSE IF a[Len(a)] = "/" THEN a \o b
    ELSE a \o <<"/">> \o b

\* Variant of CACHE_DIR that tests "is not None" instead of truthiness.
CACHE_DIR_if_set(env) ==
    IF env.xdg.set
    THEN PathJoin(env.xdg.value, DirName)
    ELSE PathJoin(env.home, DirName)

\* CACHE_DIR: under XDG_CACHE_HOME if it is truthy, else under Path.home().
CACHE_DIR(env) ==
    IF env.xdg.set /\ env.xdg.value # <<>>
    THEN PathJoin(env.xdg.value, DirName)
    ELSE PathJoin(env.home, DirName)

CACHE_FILE(env) == PathJoin(CACHE_DIR(env), FileName)

\* argparse.Namespace: the two flags and the positional filepaths. A flag is
\* combined with at most one path, which is enough to see it take precedence.
Args ==
    { a \in [cache_file : BOOLEAN, clean : BOOLEAN, filepath : BatchArgs] :
        (a.cache_file \/ a.clean) => Len(a.filepath) <= 1 }

\* str(CacheFileNotFound("cache file is not found."))
NotFoundMessage == <<"cache file is not found.">>

\* Variant of the command without sys.exit(0) after print(CACHE_FILE).
main_print_falls_through(args, location, f, fsys) ==
    IF args.clean
    THEN LET r == clean_cache_file(f, fsys)
         IN IF r.out = "CacheFileNotFound"
            THEN [exit |-> 1, printed |-> NotFoundMessage, file |-> r.file]
            ELSE [exit |-> 0, printed |-> <<>>, file |-> r.file]
    ELSE IF args.filepath # <<>>
    THEN [exit |-> 0, printed |-> <<>>, file |-> cache_filepaths(args.filepath, f).file]
    ELSE [exit |-> 0, printed |-> <<>>, file |-> f]

\* Variant of the command whose except branch exits 0.
main_error_exits_zero(args, location, f, fsys) ==
    IF args.cache_file THEN [exit |-> 0, printed |-> location, file |-> f]
    ELSE IF args.clean
    THEN LET r == clean_cache_file(f, fsys)
         IN IF r.out = "CacheFileNotFound"
            THEN [exit |-> 0, printed |-> NotFoundMessage, file |-> r.file]
            ELSE [exit |-> 0, printed |-> <<>>, file |-> r.file]
    ELSE IF args.filepath # <<>>
    THEN [exit |-> 0, printed |-> <<>>, file |-> cache_filepaths(args.filepath, f).file]
    ELSE [exit |-> 0, printed |-> <<>>, file |-> f]

\* The __main__ block on the cache file at location: the exit code, what is
\* printed, and the file afterwards.
main(args, location, f, fsys) ==
    IF args.cache_file THEN [exit |-> 0, printed |-> location, file |-> f]
    ELSE IF args.clean
    THEN LET r == clean_cache_file(f, fsys)
         IN IF r.out = "CacheFileNotFound"
            THEN [exit |-> 1, printed |-> NotFoundMessage, file |-> r.file]
            ELSE [exit |-> 0, printed |-> <<>>, file |-> r.file]
    ELSE IF args.filepath # <<>>
    THEN [exit |-> 0, printed |-> <<>>, file |-> cache_filepaths(args.filepath, f).file]
    ELSE [exit |-> 0, printed |-> <<>>, file |-> f]

\* A process starts: the module is imported and CACHE_FILE is computed from
\* the environment.
Startup ==
    /\ lastOp.op # "startup"
    /\ \E env \in Envs :
          lastOp' = Op("startup", env, "ok", <<CACHE_FILE(env)>>)
    /\ UNCHANGED <<cache_file, procs>>

\* The started process parses its arguments and runs the __main__ block.
Main ==
    /\ lastOp.op = "startup"
    /\ \E args \in Args :
       \E fsys \in IF ~args.cache_file /\ args.clean THEN SUBSET Paths ELSE {{}} :
          LET r == main(args, lastOp.ret[1], cache_file, fsys)
          IN /\ Fits(r.file)
             /\ cache_file' = r.file
             /\ lastOp' = [Op("main",
                              [args |-> args, env |-> lastOp.arg,
                               CACHE_FILE |-> lastOp.ret[1]],
                              "ok", [exit |-> r.exit, printed |-> r.printed])
                             EXCEPT !.fs = fsys]
    /\ UNCHANGED procs

NextMain ==
    \/ Startup
    \/ Main

SpecMain == Init /\ [][NextMain]_vars

\* ------------------------------------------- two processes, no locking
\* Two processes each make one call on the same cache file. A call is a
\* sequence of steps, one per system call on the file, and the steps of the
\* two calls interleave freely.
ProcIds == {1, 2}
Other(i) == 3 - i

Calls ==
    { [call |-> "cache_filepath", arg |-> filepath] : filepath \in Inputs }
        \cup { [call |-> "clean_cache_file", arg |-> <<>>] }

\* A process before its call: its position, its outcome, the local list
\* exising_paths and the file system of clean, and what it has observed of
\* the other process (whether any of its steps fell inside the other's call,
\* and whether its membership read came before the other's append).
Proc(c) ==
    [call |-> c.call, arg |-> c.arg, pc |-> "start", out |-> "running",
     exising_paths |-> <<>>, fs |-> {}, overlapped |-> FALSE, early |-> FALSE]

\* The cache files a run of the command leaves behind.
RaceFiles ==
    {Absent(TRUE), clean_cache_file(EmptyFile, {}).file}
        \cup { cache_filepaths(filepaths, EmptyFile).file : filepaths \in BatchArgs }

InitRace ==
    /\ cache_file \in RaceFiles
    /\ lastOp = [op |-> "init", arg |-> <<>>, out |-> "ok", ret |-> <<>>,
                 pre |-> cache_file, fs |-> {}, repeat |-> FALSE]
    /\ procs \in [ProcIds -> { Proc(c) : c \in Calls }]

\* Process i moves to pc with outcome out.
Moved(i, pc, out) ==
    [procs[i] EXCEPT
        !.pc = pc, !.out = out,
        !.overlapped = @ \/ procs[Other(i)].pc \notin {"start", "done"}]

\* Variant of the append that opens the file "w".
AppendTo_truncating(realpath, f) ==
    [exists |-> TRUE, parent |-> f.parent, text |-> _cache_realpath(realpath, <<>>)]

\* cache_file.open("a") and _cache_realpath: the file is created if absent
\* and the line lands at the end of what the file holds at that moment.
AppendTo(realpath, f) ==
    [exists |-> TRUE, parent |-> f.parent, text |-> _cache_realpath(realpath, f.text)]

\* The bytes of new written at offset 0 over old.
Overlay(new, old) == new \o SubSeq(old, Len(new) + 1, Len(old))

\* cache_filepath, the membership test: one read of the whole file.
InsertRead ==
    \E i \in ProcIds :
        LET r == cache_filepath(procs[i].arg, cache_file)
        IN /\ procs[i].call = "cache_filepath"
           /\ procs[i].pc = "start"
           /\ procs' = [procs EXCEPT ![i] =
                  [(IF r.out = "appended"
                    THEN Moved(i, "append", "running")
                    ELSE Moved(i, "done", r.out))
                   EXCEPT !.early = procs[Other(i)].out # "appended"]]
           /\ UNCHANGED <<cache_file, lastOp>>

\* cache_filepath, the append that follows a negative membership test.
InsertAppend ==
    \E i \in ProcIds :
        /\ procs[i].call = "cache_filepath"
        /\ procs[i].pc = "append"
        /\ cache_file' = AppendTo(Resolve(procs[i].arg), cache_file)
        /\ procs' = [procs EXCEPT ![i] = Moved(i, "done", "appended")]
        /\ UNCHANGED lastOp

\* clean_cache_file, the exists() test.
CleanExists ==
    \E i \in ProcIds :
        /\ procs[i].call = "clean_cache_file"
        /\ procs[i].pc = "start"
        /\ procs' = [procs EXCEPT ![i] =
               IF cache_file.exists
               THEN Moved(i, "read", "running")
               ELSE Moved(i, "done", "CacheFileNotFound")]
        /\ UNCHANGED <<cache_file, lastOp>>

\* clean_cache_file, list(__existing_paths()): the file is read and each
\* line is tested against the file system.
CleanRead ==
    \E i \in ProcIds :
    \E fsys \in SUBSET Paths :
        /\ procs[i].call = "clean_cache_file"
        /\ procs[i].pc = "read"
        /\ procs' = [procs EXCEPT ![i] =
               [Moved(i, "open", "running") EXCEPT
                   !.exising_paths = ExistingPaths(cache_file.text, fsys),
                   !.fs = fsys]]
        /\ UNCHANGED <<cache_file, lastOp>>

\* clean_cache_file, cache_file.open("w"): the file is truncated.
CleanOpen ==
    \E i \in ProcIds :
        /\ procs[i].call = "clean_cache_file"
        /\ procs[i].pc = "open"
        /\ cache_file' = [cache_file EXCEPT !.exists = TRUE, !.text = <<>>]
        /\ procs' = [procs EXCEPT ![i] = Moved(i, "write", "running")]
        /\ UNCHANGED lastOp

\* clean_cache_file, the end of the with block: the buffered lines are
\* written from offset 0.
CleanWrite ==
    \E i \in ProcIds :
        /\ procs[i].call = "clean_cache_file"
        /\ procs[i].pc = "write"
        /\ cache_file' =
               [cache_file EXCEPT
                   !.text = Overlay(JoinNL(procs[i].exising_paths) \o <<NL>>, @)]
        /\ procs' = [procs EXCEPT ![i] = Moved(i, "done", "ok")]
        /\ UNCHANGED lastOp

NextRace ==
    \/ InsertRead
    \/ InsertAppend
    \/ CleanExists
    \/ CleanRead
    \/ CleanOpen
    \/ CleanWrite

SpecRace == InitRace /\ [][NextRace]_vars

\* ================================================================ claims
\* The number of positions of tup that hold x.
CountIn(x, tup) == Cardinality({ i \in 1..Len(tup) : tup[i] = x })

\* The lines of a text as they are in the file: newline removed, not stripped.
RawLines(text) ==
    LET ls == FileLines(text)
    IN [i \in 1..Len(ls) |->
          IF ls[i][Len(ls[i])] = NL THEN SubSeq(ls[i], 1, Len(ls[i]) - 1) ELSE ls[i]]

IsPrefix(s, t) == Len(s) <= Len(t) /\ SubSeq(t, 1, Len(s)) = s

\* What a call has added after the text the file had before it.
Added == SubSeq(cache_file.text, Len(lastOp.pre.text) + 1, Len(cache_file.text))

Realpaths(filepaths) == [i \in 1..Len(filepaths) |-> Resolve(filepaths[i])]

Distinct(tup) == \A i, j \in 1..Len(tup) : i # j => tup[i] # tup[j]

InsertDone == lastOp.op = "cache_filepath" /\ lastOp.out \in {"appended", "skipped"}
BatchDone == lastOp.op = "cache_filepaths" /\ lastOp.out = "ok"
CleanDone == lastOp.op = "clean_cache_file" /\ lastOp.out = "ok"
SetupDone == lastOp.op = "_setup_cache_file"

\* C1: when a successful insert of one path (cache_filepath, or
\* cache_filepaths with one path) is followed by a second one whose input
\* resolves to the same canonical path, the second call leaves the file as it
\* was and the file holds exactly one line equal to that canonical path.
C1_SecondInsertIsNoOp ==
    lastOp.repeat =>
        LET real == IF lastOp.op = "cache_filepath" THEN Resolve(lastOp.arg)
                    ELSE Resolve(lastOp.arg[1])
        IN /\ cache_file = lastOp.pre
           /\ CountIn(real, RawLines(cache_file.text)) = 1

\* C2: starting from an absent or empty cache file, the file never holds two
\* equal lines.
C2_NoDuplicateLines == Distinct(RawLines(cache_file.text))

\* C3: cache_filepaths([p1..pn]) with pairwise distinct canonical paths on an
\* absent or empty cache file, then _cache_contents, returns exactly
\* [canon(p1), ..., canon(pn)].
C3_RoundTrip ==
    (BatchDone /\ lastOp.pre.text = <<>> /\ Distinct(Realpaths(lastOp.arg)))
        => _cache_contents(cache_file.text) = Realpaths(lastOp.arg)

\* C4: after clean_cache_file of a file that holds path lines, the lines of the file are exactly the prior
\* stripped lines whose path exists, in their order: none dropped, none
\* kept that is missing, none added.
C4_CleanKeepsExactlyExisting ==
    (CleanDone /\ \E i \in 1..Len(_cache_contents(lastOp.pre.text)) :
                      _cache_contents(lastOp.pre.text)[i] # <<>>) =>
        _cache_contents(cache_file.text)
            = SelectSeq(_cache_contents(lastOp.pre.text), LAMBDA l : PathExists(l, lastOp.fs))

\* C5: clean_cache_file on an absent cache file raises CacheFileNotFound and
\* writes nothing: the file is still absent and neither it nor its parent
\* directory has been created.
C5_CleanAbsentNoWrite ==
    (lastOp.op = "clean_cache_file" /\ ~lastOp.pre.exists)
        => /\ lastOp.out = "CacheFileNotFound"
           /\ ~cache_file.exists
           /\ cache_file.parent = lastOp.pre.parent
           /\ cache_file.text = <<>>

C5_Witness ==
    /\ lastOp.op = "clean_cache_file"
    /\ ~lastOp.pre.exists
    /\ lastOp.pre.parent
    /\ lastOp.out = "CacheFileNotFound"

\* C6: _setup_cache_file succeeds on every state of the cache file, the file
\* exists afterwards, a file that existed keeps its text, a created file is
\* empty, and a second call changes nothing.
C6_SetupIdempotent ==
    SetupDone =>
        /\ lastOp.out = "ok"
        /\ cache_file.exists /\ cache_file.parent
        /\ lastOp.pre.exists => cache_file.text = lastOp.pre.text
        /\ ~lastOp.pre.exists => cache_file.text = <<>>
        /\ _setup_cache_file(cache_file) = [out |-> "ok", file |-> cache_file]

C6_Witness ==
    /\ SetupDone
    /\ lastOp.pre.exists
    /\ lastOp.pre.text # <<>>
    /\ cache_file.text = lastOp.pre.text

\* C7: one cache_filepaths call checks membership against the contents read
\* once at its start: a canonical path that is not in that snapshot is
\* appended once per input that resolves to it (twice for two such inputs),
\* and an input whose canonical path is in the snapshot is not appended.
C7_BatchSnapshotGap ==
    BatchDone =>
        LET snapshot == _cache_contents(lastOp.pre.text)
            reals == Realpaths(lastOp.arg)
            added == RawLines(Added)
        IN /\ IsPrefix(lastOp.pre.text, cache_file.text)
           /\ \A i \in 1..Len(reals) :
                 IF InTuple(reals[i], snapshot)
                 THEN ~InTuple(reals[i], added)
                 ELSE CountIn(reals[i], added) = CountIn(reals[i], reals)

C7_Witness ==
    /\ BatchDone
    /\ lastOp.pre.text # <<>>
    /\ Len(lastOp.arg) = 2
    /\ lastOp.arg[1] # lastOp.arg[2]
    /\ Resolve(lastOp.arg[1]) = Resolve(lastOp.arg[2])
    /\ ~InTuple(Resolve(lastOp.arg[1]), _cache_contents(lastOp.pre.text))
    /\ CountIn(Resolve(lastOp.arg[1]), RawLines(cache_file.text)) = 2

\* C8: _cache_contents, _already_cached, cache_filepath and clean_cache_file
\* on an absent cache file fail with CacheFileNotFound and leave the file
\* absent; cache_filepaths on an absent file succeeds and creates it.
C8_TypedErrorOnAbsentFile ==
    ~lastOp.pre.exists =>
        /\ lastOp.op \in {"_cache_contents", "_already_cached",
                          "cache_filepath", "clean_cache_file"}
              => lastOp.out = "CacheFileNotFound" /\ ~cache_file.exists
        /\ lastOp.op = "cache_filepaths"
              => lastOp.out = "ok" /\ cache_file.exists

\* C9: after every call that wrote path data (an appending cache_filepath or
\* cache_filepaths, or clean_cache_file) the file text ends with a newline,
\* and what an insert added is its yielded paths, each followed by exactly
\* one newline.
C9_TrailingNewline ==
    /\ ((InsertDone /\ lastOp.out = "appended") \/ (BatchDone /\ Added # <<>>) \/ CleanDone)
          => cache_file.text # <<>> /\ cache_file.text[Len(cache_file.text)] = NL
    /\ (InsertDone /\ lastOp.out = "appended")
          => FileLines(Added) = << Resolve(lastOp.arg) \o <<NL>> >>
    /\ BatchDone
          => LET yielded == _not_cached_realpaths(lastOp.arg, lastOp.pre.text)
             IN FileLines(Added) = [i \in 1..Len(yielded) |-> yielded[i] \o <<NL>>]

C9_Witness ==
    /\ BatchDone
    /\ Len(FileLines(Added)) = 2
    /\ lastOp.pre.text # <<>>
    /\ cache_file.text[Len(cache_file.text)] = NL

\* C10: after clean_cache_file the text is the surviving lines, each followed
\* by one newline; _cache_contents then returns as many lines as survive,
\* and when no line survives the file holds no line at all.
C10_CleanOutputFormat ==
    CleanDone =>
        LET surviving == ExistingPaths(lastOp.pre.text, lastOp.fs)
        IN /\ cache_file.text = Terminated(surviving)
           /\ Len(_cache_contents(cache_file.text)) = Len(surviving)
           /\ surviving = <<>> => FileLines(cache_file.text) = <<>>

\* C11: cache_filepath and cache_filepaths only append: the text before the
\* call is a prefix of the text after it; text disappears only through
\* clean_cache_file; and no call deletes a cache file that exists.
C11_AppendOnly ==
    /\ lastOp.op \in {"cache_filepath", "cache_filepaths"}
          => IsPrefix(lastOp.pre.text, cache_file.text)
    /\ ~IsPrefix(lastOp.pre.text, cache_file.text) => lastOp.op = "clean_cache_file"
    /\ lastOp.pre.exists => cache_file.exists

C11_Witness ==
    /\ InsertDone
    /\ lastOp.out = "appended"
    /\ lastOp.pre.text # <<>>
    /\ IsPrefix(lastOp.pre.text, cache_file.text)

\* C17: after a successful cache_filepath(p), or cache_filepaths of a list
\* that holds p, _already_cached(canon(p)) on the same file is true.
C17_ReadYourWrite ==
    /\ InsertDone => _already_cached(Resolve(lastOp.arg), cache_file.text)
    /\ BatchDone =>
          \A i \in 1..Len(lastOp.arg) :
              _already_cached(Resolve(lastOp.arg[i]), cache_file.text)

\* One cache_filepath call per input, in order.
RECURSIVE InsertEach(_, _)
InsertEach(filepaths, f) ==
    IF filepaths = <<>> THEN f
    ELSE InsertEach(Tail(filepaths), cache_filepath(Head(filepaths), f).file)

\* C18: for a list of inputs with pairwise distinct canonical paths,
\* cache_filepaths leaves the same file as _setup_cache_file followed by
\* cache_filepath of each input in order.
C18_BatchEqualsSequential ==
    (BatchDone /\ Distinct(Realpaths(lastOp.arg)))
        => cache_file = InsertEach(lastOp.arg, _setup_cache_file(lastOp.pre).file)

\* C19: with the file system unchanged, a second clean_cache_file leaves the
\* file as the first one left it, and clean_cache_file succeeds on every
\* existing file, duplicate lines included.
C19_CleanIdempotent ==
    /\ (lastOp.op = "clean_cache_file" /\ lastOp.pre.exists) => lastOp.out = "ok"
    /\ CleanDone =>
          clean_cache_file(cache_file, lastOp.fs) = [out |-> "ok", file |-> cache_file]

C19_Witness ==
    /\ CleanDone
    /\ ~Distinct(_cache_contents(lastOp.pre.text))
    /\ ~Distinct(_cache_contents(cache_file.text))
    /\ cache_file.text # lastOp.pre.text

MainDone == lastOp.op = "main"

\* C12: with the print flag the process exits 0 and the cache file is
\* unchanged, whatever else is given; else with the clean flag only clean
\* runs and no path is inserted; else non-empty paths go to cache_filepaths;
\* with no flag and no path nothing changes (the file is not created) and
\* the process exits 0.
C12_Dispatch ==
    MainDone =>
        LET a == lastOp.arg.args
        IN /\ a.cache_file => lastOp.ret.exit = 0 /\ cache_file = lastOp.pre
           /\ (~a.cache_file /\ a.clean)
                 => cache_file = clean_cache_file(lastOp.pre, lastOp.fs).file
           /\ (~a.cache_file /\ ~a.clean /\ a.filepath # <<>>)
                 => /\ cache_file = cache_filepaths(a.filepath, lastOp.pre).file
                    /\ lastOp.ret.exit = 0
           /\ (~a.cache_file /\ ~a.clean /\ a.filepath = <<>>)
                 => lastOp.ret.exit = 0 /\ cache_file = lastOp.pre

C12_Witness ==
    /\ MainDone
    /\ lastOp.arg.args.cache_file
    /\ lastOp.arg.args.clean
    /\ lastOp.arg.args.filepath # <<>>
    /\ lastOp.pre.text # <<>>
    /\ cache_file = lastOp.pre
    /\ lastOp.ret.exit = 0

\* C13: with the clean flag and without the print flag, the process exits 0
\* if and only if the cache file existed (and clean_cache_file has run); when
\* the file is absent it prints the error, exits 1 and the file stays absent.
C13_CleanExitCode ==
    (MainDone /\ ~lastOp.arg.args.cache_file /\ lastOp.arg.args.clean) =>
        /\ lastOp.ret.exit \in {0, 1}
        /\ lastOp.ret.exit = 0 <=> lastOp.pre.exists
        /\ lastOp.pre.exists
              => cache_file = clean_cache_file(lastOp.pre, lastOp.fs).file
        /\ ~lastOp.pre.exists
              => /\ lastOp.ret.exit = 1
                 /\ lastOp.ret.printed = NotFoundMessage
                 /\ cache_file = lastOp.pre

C13_Witness ==
    /\ MainDone
    /\ ~lastOp.arg.args.cache_file
    /\ lastOp.arg.args.clean
    /\ ~lastOp.pre.exists
    /\ lastOp.ret.exit = 1
    /\ ~cache_file.exists

\* <base>/cachef/cachef.txt
UnderBase(base) ==
    base \o <<"/", "c", "a", "c", "h", "e", "f",
              "/", "c", "a", "c", "h", "e", "f", ".", "t", "x", "t">>

DefaultLocation(env) ==
    IF env.xdg.set /\ env.xdg.value # <<>>
    THEN UnderBase(env.xdg.value)
    ELSE UnderBase(env.home)

\* C14: the cache file is <XDG_CACHE_HOME>/cachef/cachef.txt when
\* XDG_CACHE_HOME is set and non-empty, else <HOME>/cachef/cachef.txt; it is
\* computed at startup and is the location the command prints and works on.
C14_DefaultLocation ==
    /\ lastOp.op = "startup" => lastOp.ret = <<DefaultLocation(lastOp.arg)>>
    /\ MainDone =>
          /\ lastOp.arg.CACHE_FILE = DefaultLocation(lastOp.arg.env)
          /\ lastOp.arg.args.cache_file
                => lastOp.ret.printed = DefaultLocation(lastOp.arg.env)

C14_Witness ==
    /\ MainDone
    /\ lastOp.arg.args.cache_file
    /\ lastOp.arg.env.xdg = EnvVar(<<>>)
    /\ lastOp.ret.printed = UnderBase(lastOp.arg.env.home)

RaceDone == procs # <<>> /\ \A i \in ProcIds : procs[i].pc = "done"

\* The two calls ran one after the other.
Sequential == \A i \in ProcIds : ~procs[i].overlapped

\* Process i inserted a path that exists on the file system the clean of the
\* other process saw, and both calls returned successfully.
InsertedBesideClean(i) ==
    /\ procs[i].call = "cache_filepath"
    /\ procs[i].out \in {"appended", "skipped"}
    /\ procs[Other(i)].call = "clean_cache_file"
    /\ procs[Other(i)].out = "ok"
    /\ Resolve(procs[i].arg) \in procs[Other(i)].fs

InFile(realpath) == CountIn(realpath, RawLines(cache_file.text)) > 0

\* The lost update: clean and the insert of an existing path overlapped, both
\* returned successfully, and the path is not in the file.
C15_LostUpdate ==
    /\ RaceDone
    /\ ~Sequential
    /\ \E i \in ProcIds :
          /\ InsertedBesideClean(i)
          /\ procs[i].out = "appended"
          /\ ~InFile(Resolve(procs[i].arg))

\* C15: a clean and an insert of an existing path that both return
\* successfully can leave the path out of the final file when they overlap,
\* but when the two calls run one after the other the inserted path is in the
\* file.
C15_LostOnlyWhenOverlapping ==
    (RaceDone /\ Sequential) =>
        \A i \in ProcIds :
            InsertedBesideClean(i) => InFile(Resolve(procs[i].arg))

\* Both processes insert the same canonical path, which the membership test
\* does not find in the initial file, and each membership read comes before
\* the append of the other process.
BothReadBeforeAppend ==
    /\ \A i \in ProcIds : procs[i].call = "cache_filepath" /\ procs[i].early
    /\ Resolve(procs[1].arg) = Resolve(procs[2].arg)
    /\ lastOp.pre.exists
    /\ ~_already_cached(Resolve(procs[1].arg), lastOp.pre.text)

\* C16: when two processes insert paths that resolve to the same canonical
\* path c, not yet in the file, and both membership reads happen before
\* either append, both calls append and the file ends with c twice.
C16_CheckThenAppendRace ==
    (RaceDone /\ BothReadBeforeAppend) =>
        LET c == Resolve(procs[1].arg)
        IN /\ \A i \in ProcIds : procs[i].out = "appended"
           /\ cache_file.text = lastOp.pre.text \o c \o <<NL>> \o c \o <<NL>>
           /\ CountIn(c, RawLines(cache_file.text)) >= 2

C16_Witness ==
    /\ RaceDone
    /\ BothReadBeforeAppend
    /\ procs[1].arg # procs[2].arg
    /\ ~Sequential
    /\ CountIn(Resolve(procs[1].arg), RawLines(cache_file.text)) = 2
====
